---- MODULE Spec2Model ----
(***************************************************************************)
(* A model of the nestor-matrix bot (src/src/nestor_matrix/bot.py,         *)
(* compat.py and auth.py): the mention classifier, the thread-history      *)
(* builder, the message handler NestorBot._handle_message, the relation    *)
(* fetcher and the homeserver resolution.                                  *)
(*                                                                         *)
(* Strings are sequences of one-character strings, so that lower(),        *)
(* startswith() and split() are computed character by character.           *)
(***************************************************************************)
EXTENDS Integers, Sequences, FiniteSets, TLC

VARIABLES
    user_id,          \* self.user_id (settings.user_id), bot.py:79
    event,            \* the MessageEvent given to the operation under study
    members,          \* len(get_joined_members(event.room_id)), bot.py:128
    pc,               \* position of the operation (which await it is at)
    prompt,           \* local `prompt` of _handle_message, bot.py:163
    message_history,  \* local `message_history` of _handle_message, bot.py:173
    reply,            \* local `reply` of _handle_message, bot.py:175
    exc,              \* exception that left the operation ("none" when none)
    calls,            \* the client / agent calls awaited so far, in order
    server,           \* what the remote server answers to the requests
    args,             \* arguments of the operation that are not an event
    result            \* value returned by the pure operation under study

vars == <<user_id, event, members, pc, prompt, message_history, reply, exc,
          calls, server, args, result>>

(***************************************************************************)
(* Bounds of the model.                                                    *)
(***************************************************************************)
\* longest text appended after a prefix when message bodies are enumerated
MaxTail == 3
\* most replies a thread holds on the server
MaxReplies == 2
\* most joined members of a room
MaxMembers == 3
\* `limit` arguments of get_event_relations range over -1..MaxLimit
MaxLimit == 2
\* a domain or a base_url ends with at most MaxSlashes "/"
MaxSlashes == 1

(***************************************************************************)
(* Characters and strings.                                                 *)
(***************************************************************************)
SPACE == " "
TAB == "\t"

\* str.isspace for the characters of the model
IsSpace(c) == c \in {SPACE, TAB}

UpperLetters == <<"A", "B", "E", "H", "N", "O", "R", "S", "T">>
LowerLetters == <<"a", "b", "e", "h", "n", "o", "r", "s", "t">>

\* str.lower() on one character
LowerChar(c) ==
    IF \E i \in 1..Len(UpperLetters) : UpperLetters[i] = c
    THEN LowerLetters[CHOOSE i \in 1..Len(UpperLetters) : UpperLetters[i] = c]
    ELSE c

\* str.lower()
Lower(s) == [i \in 1..Len(s) |-> LowerChar(s[i])]

\* str.startswith(p)
StartsWith(s, p) == Len(p) <= Len(s) /\ SubSeq(s, 1, Len(p)) = p

\* s[i:] with i counted from 1
From(s, i) == SubSeq(s, i, Len(s))

\* `c in s`
Contains(s, c) == \E i \in 1..Len(s) : s[i] = c

\* index of the first position >= i of s that holds (resp. does not hold) a
\* whitespace character, Len(s) + 1 when there is none
RECURSIVE SkipSpace(_, _)
SkipSpace(s, i) ==
    IF i <= Len(s) /\ IsSpace(s[i]) THEN SkipSpace(s, i + 1) ELSE i

RECURSIVE SkipWord(_, _)
SkipWord(s, i) ==
    IF i <= Len(s) /\ ~IsSpace(s[i]) THEN SkipWord(s, i + 1) ELSE i

\* str.split(maxsplit=1): split on runs of whitespace, leading whitespace
\* dropped, at most one split; the remainder keeps its trailing whitespace
SplitOnce(s) ==
    LET i == SkipSpace(s, 1)
        j == SkipWord(s, i)
        k == SkipSpace(s, j)
    IN  IF i > Len(s) THEN <<>>
        ELSE IF k > Len(s) THEN <<SubSeq(s, i, j - 1)>>
        ELSE <<SubSeq(s, i, j - 1), From(s, k)>>

(***************************************************************************)
(* Results of operations that may raise.                                   *)
(***************************************************************************)
Ok(v) == [exc |-> "none", val |-> v]
Raise(e) == [exc |-> e, val |-> <<>>]

(***************************************************************************)
(* Mention classifier, bot.py:40-47 and bot.py:126-139.                    *)
(***************************************************************************)
TOKEN_NESTOR == <<"!", "n", "e", "s", "t", "o", "r">>
TOKEN_N == <<"!", "n">>

\* the tuple given to startswith at bot.py:42
MentionTokens(uid) == {TOKEN_NESTOR, TOKEN_N, uid}

\* body.lower().startswith(("!nestor", "!n", user_id))
_is_mentioned(body, uid) ==
    \E tok \in MentionTokens(uid) : StartsWith(Lower(body), tok)

\* body.split(maxsplit=1)[1] if " " in body else ""
_extract_prompt(body) ==
    IF Contains(body, SPACE)
    THEN IF Len(SplitOnce(body)) >= 2
         THEN Ok(SplitOnce(body)[2])
         ELSE Raise("IndexError")
    ELSE Ok(<<>>)

\* len(joined members) == 2
_is_direct_message(n) == n = 2

\* a bot that answers every message of the others
_should_respond_to_all(sender, uid, n, body) == sender # uid

_should_respond_dm_first(sender, uid, n, body) ==
    IF _is_direct_message(n) THEN TRUE
    ELSE IF sender = uid THEN FALSE
    ELSE _is_mentioned(body, uid)

_should_respond_mention_only(sender, uid, n, body) ==
    IF sender = uid THEN FALSE ELSE _is_mentioned(body, uid)

\* NestorBot._should_respond, given the room's member count
_should_respond(sender, uid, n, body) ==
    IF sender = uid THEN FALSE
    ELSE IF _is_direct_message(n) THEN TRUE
    ELSE _is_mentioned(body, uid)

(***************************************************************************)
(* Events.  An event is a record                                           *)
(*   [event_id, sender, body, form, relates_to]                            *)
(* where event_id is a number that grows with the time the event was sent, *)
(* relates_to is [rel_type, event_id] (event_id 0 standing for None) and   *)
(* form says what the event is on the wire and what decrypting it gives:   *)
(*   "plain_msg"      an unencrypted m.room.message                        *)
(*   "plain_other"    an unencrypted event that is no MessageEvent         *)
(*   "enc_msg"        encrypted, decrypts to a MessageEvent                *)
(*   "enc_nosession"  encrypted, decrypt raises SessionNotFound            *)
(*   "enc_error"      encrypted, decrypt raises DecryptionError            *)
(***************************************************************************)
NoRelation == [rel_type |-> "none", event_id |-> 0]

MkEvent(id, sender, body, form, rel) ==
    [event_id |-> id, sender |-> sender, body |-> body, form |-> form,
     relates_to |-> rel]

IsEncrypted(e) == e.form \in {"enc_msg", "enc_nosession", "enc_error"}

\* one awaited call, for the log of calls
Call(op, ok) == [op |-> op, ok |-> ok]

\* a result with the calls made to compute it
OkCalls(v, cs) == [exc |-> "none", val |-> v, calls |-> cs]
RaiseCalls(e, cs) == [exc |-> e, val |-> <<>>, calls |-> cs]

\* NestorBot._decrypt_event_if_needed, bot.py:233-237
_decrypt_event_if_needed(e) ==
    IF IsEncrypted(e)
    THEN CASE e.form = "enc_msg" ->
                  OkCalls([e EXCEPT !.form = "plain_msg"], <<Call("decrypt", TRUE)>>)
           [] e.form = "enc_nosession" ->
                  RaiseCalls("SessionNotFound", <<Call("decrypt", FALSE)>>)
           [] e.form = "enc_error" ->
                  RaiseCalls("DecryptionError", <<Call("decrypt", FALSE)>>)
    ELSE OkCalls(e, <<>>)

\* isinstance(e, MessageEvent)
IsMessageEvent(e) == e.form = "plain_msg"

(***************************************************************************)
(* Relation fetcher, compat.py:15-73.  The response content is a record    *)
(* [has_chunk, chunk] whose chunk is a sequence of raw events              *)
(* [valid, ev]: Event.deserialize raises SerializerError on a raw event    *)
(* that is not valid.                                                      *)
(***************************************************************************)
Reverse(s) == [i \in 1..Len(s) |-> s[Len(s) + 1 - i]]

Take(s, n) == SubSeq(s, 1, IF n < Len(s) THEN n ELSE Len(s))

\* what the homeserver answers to GET .../relations/{event_id}/m.thread with
\* dir=b: the most recent `limit` children, newest first
RelationsResponse(srv, limit) ==
    LET newest == Take(Reverse(srv.timeline), limit)
    IN  CASE srv.relations = "ok" ->
                 [has_chunk |-> TRUE,
                  chunk |-> [i \in 1..Len(newest) |->
                                 [valid |-> TRUE, ev |-> newest[i]]]]
          [] srv.relations = "bad_event" ->
                 [has_chunk |-> TRUE,
                  chunk |-> [i \in 1..Len(newest) |->
                                 [valid |-> i # 1, ev |-> newest[i]]]]
          [] srv.relations = "no_chunk" ->
                 [has_chunk |-> FALSE, chunk |-> <<>>]

\* str(n) of an integer
DigitChars == <<"0", "1", "2", "3", "4", "5", "6", "7", "8", "9">>

RECURSIVE Digits(_)
Digits(n) ==
    IF n < 10 THEN <<DigitChars[n + 1]>>
    ELSE Digits(n \div 10) \o <<DigitChars[(n % 10) + 1]>>

Str(n) == IF n < 0 THEN <<"-">> \o Digits(0 - n) ELSE Digits(n)

\* a `limit` argument: an integer, or None (the default)
NoLimit == [given |-> FALSE, value |-> 0]

IntLimit(n) == [given |-> TRUE, value |-> n]

\* the query parameters of the request, compat.py:46-51; a parameter that
\* is None is not sent.  `str(limit) if limit else None`: None and 0 are
\* both false
query_params(limit) ==
    [dir |-> "b",
     limit |-> IF limit.given /\ limit.value # 0
               THEN [present |-> TRUE, value |-> Str(limit.value)]
               ELSE [present |-> FALSE, value |-> <<>>]]

\* the one client.api.request of get_event_relations, compat.py:53-62
ApiRequest(event_id, limit, ok) ==
    [op |-> "api_request", ok |-> ok, method |-> "GET",
     path |-> [relations |-> event_id, rel_type |-> "m.thread"],
     query_params |-> query_params(limit)]

\* a decoder that leaves malformed events out of the result
get_event_relations_partial(content) ==
    IF ~content.has_chunk
    THEN RaiseCalls("MatrixResponseError", <<Call("get_event_relations", FALSE)>>)
    ELSE LET good == SelectSeq(content.chunk, LAMBDA r : r.valid)
         IN  OkCalls([i \in 1..Len(good) |-> good[i].ev],
                     <<Call("get_event_relations", TRUE)>>)

\* compat.get_event_relations, from the response content on (compat.py:64-73)
get_event_relations(content) ==
    IF ~content.has_chunk
    THEN RaiseCalls("MatrixResponseError", <<Call("get_event_relations", FALSE)>>)
    ELSE IF \E i \in 1..Len(content.chunk) : ~content.chunk[i].valid
    THEN RaiseCalls("MatrixResponseError", <<Call("get_event_relations", FALSE)>>)
    ELSE OkCalls([i \in 1..Len(content.chunk) |-> content.chunk[i].ev],
                 <<Call("get_event_relations", TRUE)>>)

(***************************************************************************)
(* Thread history builder, bot.py:205-285.                                 *)
(***************************************************************************)
\* the loop of _get_thread_messages (bot.py:217-231) over `evs`: the events
\* that decrypt to a MessageEvent, in the order given, with the calls made
\* the loop without the two except clauses for the rest of the batch: the
\* first event that fails to decrypt ends it
RECURSIVE DecryptAll_stop_at_failure(_)
DecryptAll_stop_at_failure(evs) ==
    IF evs = <<>> THEN OkCalls(<<>>, <<>>)
    ELSE LET d == _decrypt_event_if_needed(Head(evs))
         IN  IF d.exc # "none" THEN OkCalls(<<>>, d.calls)
             ELSE LET rest == DecryptAll_stop_at_failure(Tail(evs))
                      kept == IF IsMessageEvent(d.val) THEN <<d.val>> ELSE <<>>
                  IN  OkCalls(kept \o rest.val, d.calls \o rest.calls)

RECURSIVE DecryptAll(_)
DecryptAll(evs) ==
    IF evs = <<>> THEN OkCalls(<<>>, <<>>)
    ELSE LET d == _decrypt_event_if_needed(Head(evs))
             rest == DecryptAll(Tail(evs))
             kept == IF d.exc = "none" /\ IsMessageEvent(d.val)
                     THEN <<d.val>> ELSE <<>>
         IN  OkCalls(kept \o rest.val, d.calls \o rest.calls)

\* NestorBot._get_thread_messages, bot.py:205-231
_get_thread_messages(srv, limit) ==
    LET response == get_event_relations(RelationsResponse(srv, limit))
    IN  IF response.exc # "none" THEN response
        ELSE LET events == DecryptAll(response.val)
             IN  OkCalls(events.val, response.calls \o events.calls)

\* one iteration of the loop of _thread_events_to_history, bot.py:245-254
TurnOf(e, uid) ==
    IF e.sender = uid
    THEN Ok([role |-> "assistant", content |-> e.body])
    ELSE IF _is_mentioned(e.body, uid)
    THEN LET p == _extract_prompt(e.body)
         IN  IF p.exc # "none" THEN p
             ELSE Ok([role |-> "user",
                      content |-> IF p.val # <<>> THEN p.val ELSE e.body])
    ELSE Ok([role |-> "user", content |-> e.body])

\* NestorBot._thread_events_to_history, bot.py:239-256
RECURSIVE _thread_events_to_history(_, _)
_thread_events_to_history(evs, uid) ==
    IF evs = <<>> THEN Ok(<<>>)
    ELSE LET t == TurnOf(Head(evs), uid)
         IN  IF t.exc # "none" THEN Raise(t.exc)
             ELSE LET rest == _thread_events_to_history(Tail(evs), uid)
                  IN  IF rest.exc # "none" THEN rest
                      ELSE Ok(<<t.val>> \o rest.val)

\* the related event whatever the relation type
get_thread_parent_any_relation(e) == e.relates_to.event_id

\* content.get_thread_parent(): the related event of a THREAD relation,
\* 0 (None) otherwise
get_thread_parent(e) ==
    IF e.relates_to.rel_type = "m.thread" THEN e.relates_to.event_id ELSE 0

\* bot.py:270-277: the fetched and decrypted root when it is a MessageEvent;
\* any failure leaves the list empty
FetchRoot(srv) ==
    IF ~srv.root.found
    THEN OkCalls(<<>>, <<Call("get_event", FALSE)>>)
    ELSE LET d == _decrypt_event_if_needed(srv.root.ev)
             cs == <<Call("get_event", TRUE)>> \o d.calls
         IN  IF d.exc = "none" /\ IsMessageEvent(d.val)
             THEN OkCalls(<<d.val>>, cs)
             ELSE OkCalls(<<>>, cs)

\* the builder with the root fetch outside of any try: a root that cannot be
\* fetched or decrypted ends the build
_build_thread_history_root_fatal(ev, uid, srv, limit) ==
    IF get_thread_parent(ev) = 0 THEN OkCalls(<<>>, <<>>)
    ELSE LET root == FetchRoot(srv)
             replies == _get_thread_messages(srv, limit)
         IN  IF ~srv.root.found
             THEN RaiseCalls("MNotFound", root.calls)
             ELSE IF _decrypt_event_if_needed(srv.root.ev).exc # "none"
             THEN RaiseCalls(_decrypt_event_if_needed(srv.root.ev).exc,
                             root.calls)
             ELSE IF replies.exc # "none"
             THEN RaiseCalls(replies.exc, root.calls \o replies.calls)
             ELSE LET thread_events ==
                          root.val \o
                          SelectSeq(replies.val,
                                    LAMBDA e : e.event_id # ev.event_id)
                      h == _thread_events_to_history(thread_events, uid)
                  IN  [exc |-> h.exc, val |-> h.val,
                       calls |-> root.calls \o replies.calls]

\* the builder without the filter on the triggering event's id
_build_thread_history_keep_trigger(ev, uid, srv, limit) ==
    IF get_thread_parent(ev) = 0 THEN OkCalls(<<>>, <<>>)
    ELSE LET root == FetchRoot(srv)
             replies == _get_thread_messages(srv, limit)
         IN  IF replies.exc # "none"
             THEN RaiseCalls(replies.exc, root.calls \o replies.calls)
             ELSE LET thread_events == root.val \o replies.val
                      h == _thread_events_to_history(thread_events, uid)
                  IN  [exc |-> h.exc, val |-> h.val,
                       calls |-> root.calls \o replies.calls]

\* NestorBot._build_thread_history, bot.py:258-285
_build_thread_history(ev, uid, srv, limit) ==
    IF get_thread_parent(ev) = 0 THEN OkCalls(<<>>, <<>>)
    ELSE LET root == FetchRoot(srv)
             replies == _get_thread_messages(srv, limit)
         IN  IF replies.exc # "none"
             THEN RaiseCalls(replies.exc, root.calls \o replies.calls)
             ELSE LET thread_events ==
                          root.val \o
                          SelectSeq(replies.val,
                                    LAMBDA e : e.event_id # ev.event_id)
                      h == _thread_events_to_history(thread_events, uid)
                  IN  [exc |-> h.exc, val |-> h.val,
                       calls |-> root.calls \o replies.calls]

(***************************************************************************)
(* Inputs.                                                                 *)
(***************************************************************************)
\* bot identifiers: one all lower-case, one with an upper-case letter
BOT == <<"@", "b", ":", "h">>

UserIds == {BOT, <<"@", "B", ":", "h">>}

\* another account of the room
HUMAN == <<"@", "a", ":", "h">>

Senders(uid) == {uid, HUMAN}

Upper(s) ==
    [i \in 1..Len(s) |->
        IF \E k \in 1..Len(LowerLetters) : LowerLetters[k] = s[i]
        THEN UpperLetters[CHOOSE k \in 1..Len(LowerLetters) : LowerLetters[k] = s[i]]
        ELSE s[i]]

SeqsUpTo(S, n) == UNION {[1..k -> S] : k \in 0..n}

TailChars == {SPACE, TAB, "a"}

\* what a body may start with: nothing, or a mention token in either case
Prefixes(uid) ==
    {<<>>, TOKEN_NESTOR, Upper(TOKEN_NESTOR), TOKEN_N, Upper(TOKEN_N),
     uid, Lower(uid)}

\* message bodies: a prefix followed by at most MaxTail characters
Bodies(uid) == {p \o t : p \in Prefixes(uid), t \in SeqsUpTo(TailChars, MaxTail)}

\* the shapes of the events of a thread: sender, body and form
EventShapes(uid) ==
    {[sender |-> HUMAN, body |-> <<"a">>, form |-> "plain_msg"],
     [sender |-> uid, body |-> <<"a">>, form |-> "plain_msg"],
     [sender |-> HUMAN, body |-> TOKEN_N \o <<SPACE, "a">>, form |-> "plain_msg"],
     [sender |-> uid, body |-> TOKEN_N \o <<SPACE, "a">>, form |-> "plain_msg"],
     [sender |-> HUMAN, body |-> TOKEN_N \o <<SPACE>>, form |-> "plain_msg"],
     [sender |-> HUMAN, body |-> <<"a">>, form |-> "enc_msg"],
     [sender |-> HUMAN, body |-> <<"a">>, form |-> "enc_nosession"],
     [sender |-> HUMAN, body |-> <<"a">>, form |-> "enc_error"],
     [sender |-> HUMAN, body |-> <<"a">>, form |-> "plain_other"]}

\* the event that starts the thread
ROOT_ID == 1

ThreadRelation == [rel_type |-> "m.thread", event_id |-> ROOT_ID]

\* the relations a triggering message may carry: none, a thread reply, or a
\* relation of another kind (an edit of the event ROOT_ID)
Relations == {NoRelation, ThreadRelation,
              [rel_type |-> "m.replace", event_id |-> ROOT_ID]}

\* the replies of a thread, oldest first: reply i has event id ROOT_ID + i
Timelines(uid) ==
    UNION {{[i \in 1..n |-> MkEvent(ROOT_ID + i, f[i].sender, f[i].body,
                                     f[i].form, ThreadRelation)] :
               f \in [1..n -> EventShapes(uid)]} : n \in 0..MaxReplies}

\* what get_event answers for the root: a failure or the root event
RootMissing ==
    [found |-> FALSE,
     ev |-> MkEvent(ROOT_ID, HUMAN, <<>>, "plain_other", NoRelation)]

Roots(uid) ==
    {RootMissing} \cup
    {[found |-> TRUE,
      ev |-> MkEvent(ROOT_ID, sh.sender, sh.body, sh.form, NoRelation)] :
        sh \in EventShapes(uid)}

\* an operation without further arguments
NoArgs == [events |-> <<>>]

\* a homeserver that is never asked
NoServer == [root |-> RootMissing, timeline |-> <<>>, relations |-> "ok"]

\* the homeserver: the root, the replies, and whether the relations
\* response is well formed, lacks "chunk" or holds a malformed event
Servers(uid) ==
    {[root |-> r, timeline |-> t, relations |-> m] :
        r \in Roots(uid), t \in Timelines(uid),
        m \in {"ok", "no_chunk", "bad_event"}}

\* the servers a history build may meet: none is asked when the event is
\* not in a thread
ServersFor(ev, uid) ==
    IF get_thread_parent(ev) = 0
    THEN {NoServer}
    ELSE Servers(uid)

\* event ids of the triggering message: a reply of the thread, or newer
TriggerIds == (ROOT_ID + 1)..(ROOT_ID + MaxReplies + 1)

\* the id of the newest reply of a thread of MaxReplies replies
NEWEST_ID == ROOT_ID + MaxReplies

(***************************************************************************)
(* SpecClassify: the classifier applied to every body, sender and room     *)
(* size.                                                                   *)
(***************************************************************************)
InitClassify ==
    /\ user_id \in UserIds
    /\ \E s \in Senders(user_id), b \in Bodies(user_id) :
           event = MkEvent(1, s, b, "plain_msg", NoRelation)
    /\ members \in 1..MaxMembers
    /\ pc = "input"
    /\ args = NoArgs
    /\ prompt = <<>>
    /\ message_history = <<>>
    /\ reply = <<>>
    /\ exc = "none"
    /\ calls = <<>>
    /\ server = NoServer
    /\ result = "none"

\* _should_respond, _is_mentioned and _extract_prompt applied to the input
Classify ==
    /\ pc = "input"
    /\ pc' = "classified"
    /\ result' = [should_respond |->
                      _should_respond(event.sender, user_id, members, event.body),
                  is_mentioned |-> _is_mentioned(event.body, user_id),
                  extract_prompt |-> _extract_prompt(event.body)]
    /\ UNCHANGED <<args, user_id, event, members, prompt, message_history, reply,
                   exc, calls, server>>

NextClassify == Classify

SpecClassify == InitClassify /\ [][NextClassify]_vars

(***************************************************************************)
(* SpecHistory: _build_thread_history applied to every triggering event    *)
(* and every answer of the homeserver.                                     *)
(***************************************************************************)
\* the default of the `limit` parameter of _build_thread_history
HistoryLimit == 10

InitHistory ==
    /\ user_id \in UserIds
    /\ \E id \in TriggerIds, rel \in Relations :
           event = MkEvent(id, HUMAN, <<"a">>, "plain_msg", rel)
    /\ members = 2
    /\ server \in Servers(user_id)
    /\ pc = "input"
    /\ args = NoArgs
    /\ prompt = <<>>
    /\ message_history = <<>>
    /\ reply = <<>>
    /\ exc = "none"
    /\ calls = <<>>
    /\ result = "none"

BuildHistory ==
    /\ pc = "input"
    /\ pc' = "built"
    /\ result' = _build_thread_history(event, user_id, server, HistoryLimit)
    /\ UNCHANGED <<args, user_id, event, members, prompt, message_history, reply,
                   exc, calls, server>>

NextHistory == BuildHistory

SpecHistory == InitHistory /\ [][NextHistory]_vars

(***************************************************************************)
(* SpecTurns: _thread_events_to_history applied to every list of at most   *)
(* MaxReplies message events (args.events).                                *)
(***************************************************************************)
\* bodies of thread messages: without mention, a bare token, a token and
\* white space, a token (in either case, of either kind) and a text
TurnBodies(uid) ==
    {<<"a">>, TOKEN_N, TOKEN_N \o <<SPACE>>, TOKEN_N \o <<SPACE, "a">>,
     Upper(TOKEN_N) \o <<SPACE, "a">>, TOKEN_NESTOR \o <<SPACE, "a">>,
     uid \o <<SPACE, "a">>}

MessageLists(uid) ==
    UNION {{[i \in 1..n |-> MkEvent(ROOT_ID + i, f[i][1], f[i][2],
                                     "plain_msg", ThreadRelation)] :
               f \in [1..n -> Senders(uid) \X TurnBodies(uid)]} :
           n \in 0..MaxReplies}

InitTurns ==
    /\ user_id \in UserIds
    /\ event = MkEvent(NEWEST_ID + 1, HUMAN, <<"a">>, "plain_msg", ThreadRelation)
    /\ members = 2
    /\ server = NoServer
    /\ pc = "input"
    /\ \E evs \in MessageLists(user_id) : args = [events |-> evs]
    /\ prompt = <<>>
    /\ message_history = <<>>
    /\ reply = <<>>
    /\ exc = "none"
    /\ calls = <<>>
    /\ result = "none"

ConvertEvents ==
    /\ pc = "input"
    /\ pc' = "converted"
    /\ result' = _thread_events_to_history(args.events, user_id)
    /\ UNCHANGED <<args, user_id, event, members, prompt, message_history, reply,
                   exc, calls, server>>

NextTurns == ConvertEvents

SpecTurns == InitTurns /\ [][NextTurns]_vars

(***************************************************************************)
(* SpecRelations: compat.get_event_relations called with every `limit`     *)
(* (args.limit) against every answer of the homeserver (server).           *)
(***************************************************************************)
Limits ==
    {NoLimit} \cup {IntLimit(n) : n \in (0 - 1)..MaxLimit}
              \cup {IntLimit(HistoryLimit)}

\* the raw events of a "chunk": each is well formed or not
RawChunks ==
    UNION {{[i \in 1..n |->
                [valid |-> f[i][1],
                 ev |-> MkEvent(ROOT_ID + i, HUMAN, <<"a">>, f[i][2],
                                ThreadRelation)]] :
               f \in [1..n -> BOOLEAN \X {"plain_msg", "enc_msg"}]} :
           n \in 0..MaxReplies}

\* the response content: with a "chunk", or without
Contents ==
    {[has_chunk |-> TRUE, chunk |-> c] : c \in RawChunks}
        \cup {[has_chunk |-> FALSE, chunk |-> <<>>]}

\* what the homeserver does with the request: it answers with a content, or
\* the request fails
RelationAnswers ==
    {[answers |-> TRUE, content |-> c] : c \in Contents}
        \cup {[answers |-> FALSE,
               content |-> [has_chunk |-> FALSE, chunk |-> <<>>]]}

InitRelations ==
    /\ user_id = BOT
    /\ event = MkEvent(ROOT_ID, HUMAN, <<"a">>, "plain_msg", NoRelation)
    /\ members = 2
    /\ server \in RelationAnswers
    /\ pc = "input"
    /\ \E l \in Limits : args = [limit |-> l]
    /\ prompt = <<>>
    /\ message_history = <<>>
    /\ reply = <<>>
    /\ exc = "none"
    /\ calls = <<>>
    /\ result = "none"

\* compat.get_event_relations: one request, then the decoding of its answer
GetEventRelations ==
    /\ pc = "input"
    /\ pc' = "fetched"
    /\ calls' = <<ApiRequest(event.event_id, args.limit, server.answers)>>
    /\ result' = IF server.answers
                 THEN get_event_relations(server.content)
                 ELSE RaiseCalls("MatrixRequestError",
                                 <<Call("get_event_relations", FALSE)>>)
    /\ UNCHANGED <<args, user_id, event, members, prompt, message_history,
                   reply, exc, server>>

NextRelations == GetEventRelations

SpecRelations == InitRelations /\ [][NextRelations]_vars

(***************************************************************************)
(* Homeserver resolution, auth.py:8-37.  A JSON body is a record           *)
(* [kind, homeserver]: kind says whether the body is not JSON, JSON that   *)
(* is no object, or an object; homeserver is its "m.homeserver" entry      *)
(* [kind, has_base_url, base_url], absent, no object, or an object.        *)
(***************************************************************************)
SLASH == "/"

HTTP == <<"h", "t", "t", "p">>
HTTPS == <<"h", "t", "t", "p", "s">>

\* "://"
SCHEME_SEP == <<":", SLASH, SLASH>>

\* the path of the well-known document, as one token
WELL_KNOWN_PATH == <<"/.well-known/matrix/client">>

\* resp.status_code == 200, auth.py:28
HTTP_OK == 200

\* s.rstrip("/")
RECURSIVE RStripSlash(_)
RStripSlash(s) ==
    IF s # <<>> /\ s[Len(s)] = SLASH
    THEN RStripSlash(SubSeq(s, 1, Len(s) - 1))
    ELSE s

\* the first index from i on at which s holds c, Len(s) + 1 when none
RECURSIVE IndexFrom(_, _, _)
IndexFrom(s, c, i) ==
    IF i > Len(s) \/ s[i] = c THEN i ELSE IndexFrom(s, c, i + 1)

\* urlparse(url).scheme and .netloc of a url that has "://": the scheme is
\* what precedes ":", the netloc what lies between "://" and the next "/"
UrlScheme(url) == SubSeq(url, 1, IndexFrom(url, ":", 1) - 1)

UrlNetloc(url) ==
    LET start == IndexFrom(url, ":", 1) + Len(SCHEME_SEP)
    IN  SubSeq(url, start, IndexFrom(url, SLASH, start) - 1)

\* the client.get of resolve_homeserver
HttpGet(url, ok) == [op |-> "http_get", ok |-> ok, url |-> url]

\* resolve_homeserver that returns base_url as it is
resolve_homeserver_keep_slashes(domain, lookup) ==
    LET has_scheme == \/ StartsWith(domain, HTTP \o SCHEME_SEP)
                      \/ StartsWith(domain, HTTPS \o SCHEME_SEP)
        scheme == IF has_scheme THEN UrlScheme(domain) ELSE HTTPS
        dom == IF has_scheme THEN UrlNetloc(domain) ELSE domain
        well_known_url == scheme \o SCHEME_SEP \o dom \o WELL_KNOWN_PATH
        get(ok) == <<HttpGet(well_known_url, ok)>>
        fallback == OkCalls(scheme \o SCHEME_SEP \o RStripSlash(dom), get(TRUE))
        failed == RaiseCalls("ValueError", get(TRUE))
        hs == lookup.body.homeserver
    IN  IF ~lookup.connected
        THEN RaiseCalls("ValueError", get(FALSE))
        ELSE IF lookup.status # HTTP_OK THEN fallback
        ELSE IF lookup.body.kind # "object" THEN failed
        ELSE IF hs.kind = "absent" THEN fallback
        ELSE IF hs.kind # "object" THEN failed
        ELSE IF hs.has_base_url /\ hs.base_url # <<>>
        THEN OkCalls(hs.base_url, get(TRUE))
        ELSE fallback

\* auth.resolve_homeserver, auth.py:8-37.  Inside the try (auth.py:26-34)
\* client.get raises when the connection fails, resp.json() raises on a
\* body that is not JSON, and .get raises AttributeError on a document or
\* an "m.homeserver" entry that is not an object: each becomes ValueError
resolve_homeserver(domain, lookup) ==
    LET has_scheme == \/ StartsWith(domain, HTTP \o SCHEME_SEP)
                      \/ StartsWith(domain, HTTPS \o SCHEME_SEP)
        scheme == IF has_scheme THEN UrlScheme(domain) ELSE HTTPS
        dom == IF has_scheme THEN UrlNetloc(domain) ELSE domain
        well_known_url == scheme \o SCHEME_SEP \o dom \o WELL_KNOWN_PATH
        get(ok) == <<HttpGet(well_known_url, ok)>>
        fallback == OkCalls(scheme \o SCHEME_SEP \o RStripSlash(dom), get(TRUE))
        failed == RaiseCalls("ValueError", get(TRUE))
        hs == lookup.body.homeserver
    IN  IF ~lookup.connected
        THEN RaiseCalls("ValueError", get(FALSE))
        ELSE IF lookup.status # HTTP_OK THEN fallback
        ELSE IF lookup.body.kind # "object" THEN failed
        ELSE IF hs.kind = "absent" THEN fallback
        ELSE IF hs.kind # "object" THEN failed
        ELSE IF hs.has_base_url /\ hs.base_url # <<>>
        THEN OkCalls(RStripSlash(hs.base_url), get(TRUE))
        ELSE fallback

(***************************************************************************)
(* SpecAuth: resolve_homeserver applied to every domain (args.domain) and  *)
(* every outcome of the well-known lookup (server).                        *)
(***************************************************************************)
Slashes(k) == [i \in 1..k |-> SLASH]

HOST == <<"m", ".", "o">>

\* the `domain` argument: a host, with or without scheme, with or without
\* trailing slashes
Domains ==
    {pre \o HOST \o Slashes(k) :
        pre \in {<<>>, HTTP \o SCHEME_SEP, HTTPS \o SCHEME_SEP},
        k \in 0..MaxSlashes}

\* values of "base_url": the empty string, slashes only, a URL (without or
\* with a port), a URL with trailing slashes
BaseUrls ==
    {stem \o Slashes(k) :
        stem \in {<<>>, HTTPS \o SCHEME_SEP \o <<"c", ".", "o">>,
                  HTTPS \o SCHEME_SEP \o <<"c", ".", "o", ":", "8">>},
        k \in 0..MaxSlashes}

NoHomeserver == [kind |-> "absent", has_base_url |-> FALSE, base_url |-> <<>>]

\* the "m.homeserver" entry of a document
Homeservers ==
    {NoHomeserver,
     [kind |-> "not_object", has_base_url |-> FALSE, base_url |-> <<>>],
     [kind |-> "object", has_base_url |-> FALSE, base_url |-> <<>>]}
        \cup {[kind |-> "object", has_base_url |-> TRUE, base_url |-> u] :
                 u \in BaseUrls}

\* the body of an answer
Bodies_well_known ==
    {[kind |-> k, homeserver |-> NoHomeserver] : k \in {"not_json", "not_object"}}
        \cup {[kind |-> "object", homeserver |-> h] : h \in Homeservers}

\* the outcome of the GET: no connection, or an answer with status and body
Lookups ==
    {[connected |-> FALSE, status |-> 0,
      body |-> [kind |-> "not_json", homeserver |-> NoHomeserver]]}
        \cup {[connected |-> TRUE, status |-> st, body |-> b] :
                 st \in {HTTP_OK, 404}, b \in Bodies_well_known}

InitAuth ==
    /\ user_id = BOT
    /\ event = MkEvent(ROOT_ID, HUMAN, <<"a">>, "plain_msg", NoRelation)
    /\ members = 2
    /\ server \in Lookups
    /\ pc = "input"
    /\ \E d \in Domains : args = [domain |-> d]
    /\ prompt = <<>>
    /\ message_history = <<>>
    /\ reply = <<>>
    /\ exc = "none"
    /\ calls = <<>>
    /\ result = "none"

ResolveHomeserver ==
    /\ pc = "input"
    /\ pc' = "resolved"
    /\ result' = resolve_homeserver(args.domain, server)
    /\ UNCHANGED <<args, user_id, event, members, prompt, message_history,
                   reply, exc, calls, server>>

NextAuth == ResolveHomeserver

SpecAuth == InitAuth /\ [][NextAuth]_vars

(***************************************************************************)
(* Password login, auth.py:40-78.  The answer to the login request is a    *)
(* record [connected, status, body]; its body is not JSON, or a JSON       *)
(* object with or without the keys "access_token" and "device_id".         *)
(***************************************************************************)
\* the path of the login endpoint, as one token
LOGIN_PATH == <<"/_matrix/client/v3/login">>

AT == "@"

\* the json of the login request, auth.py:68-72
LoginPayload(username, password) ==
    [type |-> "m.login.password",
     identifier |-> [type |-> "m.id.user", user |-> username],
     password |-> password]

\* the client.post of get_access_token, auth.py:66-74
HttpPost(url, json, ok) == [op |-> "http_post", ok |-> ok, url |-> url, json |-> json]

\* resp.raise_for_status() raises for a client or server error status
IsErrorStatus(status) == status >= 400

\* get_access_token that derives the user id from the homeserver it was
\* given and posts there, the resolution left unused
get_access_token_unresolved(homeserver, username, password, lookup, login) ==
    LET resolved == resolve_homeserver(homeserver, lookup)
    IN  IF resolved.exc # "none" THEN resolved
        ELSE LET user == IF StartsWith(username, <<AT>>) THEN username
                         ELSE <<AT>> \o username \o <<":">> \o UrlNetloc(homeserver)
                 post(ok) == <<HttpPost(homeserver \o LOGIN_PATH,
                                        LoginPayload(user, password), ok)>>
             IN  IF ~login.connected
                 THEN RaiseCalls("ConnectError", resolved.calls \o post(FALSE))
                 ELSE IF IsErrorStatus(login.status)
                 THEN RaiseCalls("HTTPStatusError", resolved.calls \o post(TRUE))
                 ELSE IF login.body.kind = "not_json"
                 THEN RaiseCalls("JSONDecodeError", resolved.calls \o post(TRUE))
                 ELSE IF ~login.body.has_tokens
                 THEN RaiseCalls("KeyError", resolved.calls \o post(TRUE))
                 ELSE OkCalls(<<login.body.access_token, login.body.device_id>>,
                              resolved.calls \o post(TRUE))

\* get_access_token without resp.raise_for_status()
get_access_token_any_status(homeserver, username, password, lookup, login) ==
    LET resolved == resolve_homeserver(homeserver, lookup)
    IN  IF resolved.exc # "none" THEN resolved
        ELSE LET user == IF StartsWith(username, <<AT>>) THEN username
                         ELSE <<AT>> \o username \o <<":">> \o UrlNetloc(resolved.val)
                 post(ok) == <<HttpPost(resolved.val \o LOGIN_PATH,
                                        LoginPayload(user, password), ok)>>
             IN  IF ~login.connected
                 THEN RaiseCalls("ConnectError", resolved.calls \o post(FALSE))
                 ELSE IF login.body.kind = "not_json"
                 THEN RaiseCalls("JSONDecodeError", resolved.calls \o post(TRUE))
                 ELSE IF ~login.body.has_tokens
                 THEN RaiseCalls("KeyError", resolved.calls \o post(TRUE))
                 ELSE OkCalls(<<login.body.access_token, login.body.device_id>>,
                              resolved.calls \o post(TRUE))

\* auth.get_access_token, auth.py:40-78: the ValueError of resolve_homeserver
\* leaves it before any login request (auth.py:58); the user id is completed
\* with urlparse(homeserver).netloc of the resolved homeserver
\* (auth.py:61-63); a failed post, raise_for_status (auth.py:75), resp.json()
\* and the two subscripts (auth.py:76-78) raise to the caller
get_access_token(homeserver, username, password, lookup, login) ==
    LET resolved == resolve_homeserver(homeserver, lookup)
    IN  IF resolved.exc # "none" THEN resolved
        ELSE LET user == IF StartsWith(username, <<AT>>) THEN username
                         ELSE <<AT>> \o username \o <<":">> \o UrlNetloc(resolved.val)
                 post(ok) == <<HttpPost(resolved.val \o LOGIN_PATH,
                                        LoginPayload(user, password), ok)>>
             IN  IF ~login.connected
                 THEN RaiseCalls("ConnectError", resolved.calls \o post(FALSE))
                 ELSE IF IsErrorStatus(login.status)
                 THEN RaiseCalls("HTTPStatusError", resolved.calls \o post(TRUE))
                 ELSE IF login.body.kind = "not_json"
                 THEN RaiseCalls("JSONDecodeError", resolved.calls \o post(TRUE))
                 ELSE IF ~login.body.has_tokens
                 THEN RaiseCalls("KeyError", resolved.calls \o post(TRUE))
                 ELSE OkCalls(<<login.body.access_token, login.body.device_id>>,
                              resolved.calls \o post(TRUE))

(***************************************************************************)
(* SpecLogin: get_access_token applied to every homeserver argument, a     *)
(* localpart and a full user id, and every outcome of the well-known       *)
(* lookup (server.lookup) and of the login request (server.login).         *)
(***************************************************************************)
\* the `username` argument: a localpart, or a full user id
Usernames == {<<"a">>, <<AT, "a", ":", "x">>}

PASSWORD == <<"p">>

\* bodies of the answer to the login request
LoginBodies ==
    {[kind |-> "not_json", has_tokens |-> FALSE,
      access_token |-> <<>>, device_id |-> <<>>],
     [kind |-> "object", has_tokens |-> FALSE,
      access_token |-> <<>>, device_id |-> <<>>]}
        \cup {[kind |-> "object", has_tokens |-> TRUE,
               access_token |-> <<t>>, device_id |-> <<"D", t>>] :
                 t \in {"t", "u"}}

\* the outcome of the POST: no connection, or an answer with status and body
Logins ==
    {[connected |-> FALSE, status |-> 0,
      body |-> [kind |-> "not_json", has_tokens |-> FALSE,
                access_token |-> <<>>, device_id |-> <<>>]]}
        \cup {[connected |-> TRUE, status |-> st, body |-> b] :
                 st \in {HTTP_OK, 403}, b \in LoginBodies}

InitLogin ==
    /\ user_id = BOT
    /\ event = MkEvent(ROOT_ID, HUMAN, <<"a">>, "plain_msg", NoRelation)
    /\ members = 2
    /\ \E lk \in Lookups, lg \in Logins : server = [lookup |-> lk, login |-> lg]
    /\ pc = "input"
    /\ \E d \in Domains, u \in Usernames :
           args = [homeserver |-> d, username |-> u, password |-> PASSWORD]
    /\ prompt = <<>>
    /\ message_history = <<>>
    /\ reply = <<>>
    /\ exc = "none"
    /\ calls = <<>>
    /\ result = "none"

GetAccessToken ==
    /\ pc = "input"
    /\ pc' = "logged_in"
    /\ result' = get_access_token(args.homeserver, args.username,
                                  args.password, server.lookup, server.login)
    /\ UNCHANGED <<args, user_id, event, members, prompt, message_history,
                   reply, exc, calls, server>>

NextLogin == GetAccessToken

SpecLogin == InitLogin /\ [][NextLogin]_vars

(***************************************************************************)
(* Spec: NestorBot._handle_message on one message, bot.py:151-185.  Each   *)
(* action is the completion of one awaited call, with the code that runs   *)
(* up to the next await.                                                   *)
(***************************************************************************)
\* timeouts given to set_typing
TYPING_ON == 30000
TYPING_OFF == 0

\* "Hi! Mention me with a message.", bot.py:169 (shortened)
HELP == <<"H", "i", "!">>
\* "Sorry, I encountered an error processing your request.", bot.py:175
\* (shortened)
APOLOGY == <<"S", "o", "r", "r", "y">>
\* result.output of a successful agent run
AGENT_OUTPUT == <<"o", "k">>

\* bodies of the triggering message
TriggerBodies ==
    {p \o t : p \in {<<>>, TOKEN_N},
              t \in {<<>>, <<SPACE>>, <<SPACE, "a">>, <<"a">>}}

\* the content built by _reply_in_thread, bot.py:189-200
ReplyContent(ev, text) ==
    [body |-> text,
     rel_type |-> "m.thread",
     thread |-> IF ev.relates_to.event_id # 0
                THEN ev.relates_to.event_id ELSE ev.event_id,
     in_reply_to |-> ev.event_id]

\* a send_message_event call of _reply_in_thread
SendCall(ev, text, ok) ==
    [op |-> "send_message_event", ok |-> ok, content |-> ReplyContent(ev, text)]

TypingCall(timeout, ok) == [op |-> "set_typing", ok |-> ok, timeout |-> timeout]

AgentCall(p, h, ok) ==
    [op |-> "agent_run", ok |-> ok, prompt |-> p, message_history |-> h]

Init ==
    /\ user_id = BOT
    /\ \E s \in Senders(user_id), b \in TriggerBodies, rel \in Relations :
           event = MkEvent(NEWEST_ID, s, b, "plain_msg", rel)
    /\ members \in 1..MaxMembers
    /\ pc = "received"
    /\ args = NoArgs
    /\ prompt = <<>>
    /\ message_history = <<>>
    /\ reply = <<>>
    /\ exc = "none"
    /\ calls = <<>>
    /\ server = NoServer
    /\ result = "none"

\* the handler returns
Return ==
    /\ pc' = "done"
    /\ UNCHANGED <<prompt, message_history, reply, exc>>

\* the handler is left by exception e
Propagate(e) ==
    /\ pc' = "done"
    /\ exc' = e
    /\ UNCHANGED <<prompt, message_history, reply>>

ExtractPrompt_no_empty_check ==
    LET p == IF _is_mentioned(event.body, user_id)
             THEN _extract_prompt(event.body)
             ELSE Ok(event.body)
    IN  IF p.exc # "none" THEN Propagate(p.exc)
        ELSE /\ prompt' = p.val
             /\ pc' = "build_history"
             /\ UNCHANGED <<message_history, reply, exc>>

\* bot.py:163-170, once _should_respond has returned True
ExtractPrompt ==
    LET p == IF _is_mentioned(event.body, user_id)
             THEN _extract_prompt(event.body)
             ELSE Ok(event.body)
    IN  IF p.exc # "none" THEN Propagate(p.exc)
        ELSE /\ prompt' = p.val
             /\ pc' = IF p.val = <<>> THEN "send_help" ELSE "build_history"
             /\ UNCHANGED <<message_history, reply, exc>>

\* bot.py:159-170: the message of the bot itself is dropped before any call
IgnoreOwn ==
    /\ pc = "received"
    /\ event.sender = user_id
    /\ ~_should_respond(event.sender, user_id, members, event.body)
    /\ Return
    /\ UNCHANGED <<args, user_id, event, members, calls, server, result>>

\* bot.py:159-170: get_joined_members answers (or fails), the message is
\* classified and the prompt extracted
ShouldRespond ==
    /\ pc = "received"
    /\ event.sender # user_id
    /\ \E ok \in BOOLEAN :
        /\ calls' = Append(calls, Call("get_joined_members", ok))
        /\ IF ~ok THEN Propagate("ClientError")
           ELSE IF ~_should_respond(event.sender, user_id, members, event.body)
           THEN Return
           ELSE ExtractPrompt
    /\ UNCHANGED <<args, user_id, event, members, server, result>>

\* bot.py:169-170: the help text is sent and the handler returns
SendHelp ==
    /\ pc = "send_help"
    /\ \E ok \in BOOLEAN :
        /\ calls' = Append(calls, SendCall(event, HELP, ok))
        /\ IF ok THEN Return ELSE Propagate("ClientError")
    /\ UNCHANGED <<args, user_id, event, members, server, result>>

\* bot.py:173: _build_thread_history runs to its end
HandlerBuildHistory ==
    /\ pc = "build_history"
    /\ \E srv \in ServersFor(event, user_id) :
        LET h == _build_thread_history(event, user_id, srv, HistoryLimit)
        IN  /\ calls' = calls \o h.calls
            /\ IF h.exc # "none" THEN Propagate(h.exc)
               ELSE /\ message_history' = h.val
                    /\ pc' = "typing_on"
                    /\ UNCHANGED <<prompt, reply, exc>>
    /\ UNCHANGED <<args, user_id, event, members, server, result>>

\* bot.py:174-175: set_typing(timeout=30_000) answers
TypingOn ==
    /\ pc = "typing_on"
    /\ \E ok \in BOOLEAN :
        /\ calls' = Append(calls, TypingCall(TYPING_ON, ok))
        /\ IF ok
           THEN /\ reply' = APOLOGY
                /\ pc' = "agent_run"
                /\ UNCHANGED <<prompt, message_history, exc>>
           ELSE Propagate("ClientError")
    /\ UNCHANGED <<args, user_id, event, members, server, result>>

\* agent.run: the result's output, or an exception
AgentOutcomes == {Ok(AGENT_OUTPUT), Raise("AgentError")}

\* a handler that calls agent.run again after a failure
AgentRun_retry ==
    /\ pc = "agent_run"
    /\ \E r \in AgentOutcomes :
        /\ calls' = Append(calls, AgentCall(prompt, message_history, r.exc = "none"))
        /\ reply' = IF r.exc = "none" THEN r.val ELSE reply
        /\ pc' = IF r.exc = "none" THEN "typing_off" ELSE "agent_run"
    /\ UNCHANGED <<args, user_id, event, members, prompt, message_history, exc,
                   server, result>>

AgentRun_no_except ==
    /\ pc = "agent_run"
    /\ \E r \in AgentOutcomes :
        /\ calls' = Append(calls, AgentCall(prompt, message_history, r.exc = "none"))
        /\ IF r.exc = "none"
           THEN /\ reply' = r.val
                /\ pc' = "typing_off"
                /\ UNCHANGED <<prompt, message_history, exc>>
           ELSE Propagate(r.exc)
    /\ UNCHANGED <<args, user_id, event, members, server, result>>

AgentRun_no_finally ==
    /\ pc = "agent_run"
    /\ \E r \in AgentOutcomes :
        /\ calls' = Append(calls, AgentCall(prompt, message_history, r.exc = "none"))
        /\ reply' = IF r.exc = "none" THEN r.val ELSE reply
        /\ pc' = IF r.exc = "none" THEN "typing_off" ELSE "reply"
    /\ UNCHANGED <<args, user_id, event, members, prompt, message_history, exc,
                   server, result>>

\* bot.py:176-183: agent.run returns and its output becomes the reply, or it
\* raises an Exception, which `except Exception` logs and drops; either way
\* the finally block is entered
AgentRun ==
    /\ pc = "agent_run"
    /\ \E r \in AgentOutcomes :
        /\ calls' = Append(calls, AgentCall(prompt, message_history, r.exc = "none"))
        /\ reply' = IF r.exc = "none" THEN r.val ELSE reply
    /\ pc' = "typing_off"
    /\ UNCHANGED <<args, user_id, event, members, prompt, message_history, exc,
                   server, result>>

\* bot.py:183-184: set_typing(timeout=0) answers, in the finally block
TypingOff ==
    /\ pc = "typing_off"
    /\ \E ok \in BOOLEAN :
        /\ calls' = Append(calls, TypingCall(TYPING_OFF, ok))
        /\ IF ok
           THEN /\ pc' = "reply"
                /\ UNCHANGED <<prompt, message_history, reply, exc>>
           ELSE Propagate("ClientError")
    /\ UNCHANGED <<args, user_id, event, members, server, result>>

\* bot.py:185: the reply is sent, in the finally block
SendReply ==
    /\ pc = "reply"
    /\ \E ok \in BOOLEAN :
        /\ calls' = Append(calls, SendCall(event, reply, ok))
        /\ IF ok THEN Return ELSE Propagate("ClientError")
    /\ UNCHANGED <<args, user_id, event, members, server, result>>

Next ==
    \/ IgnoreOwn
    \/ ShouldRespond
    \/ SendHelp
    \/ HandlerBuildHistory
    \/ TypingOn
    \/ AgentRun
    \/ TypingOff
    \/ SendReply

Spec == Init /\ [][Next]_vars

(***************************************************************************)
(* SpecConcurrent: two runs of _handle_message for two messages of one     *)
(* room, interleaved at their awaits (the client starts one handler task   *)
(* per event, bot.py:94-96).  pc, event, prompt, message_history, reply    *)
(* and exc are functions of the handler; calls is the one log of the       *)
(* client, each call tagged with its handler; server.typing is the typing  *)
(* indicator of the bot in the room.                                       *)
(***************************************************************************)
Handlers == {1, 2}

\* the message of handler h: from the other member of a two-member room,
\* outside of any thread
TriggerOf(h) ==
    MkEvent(ROOT_ID + h, HUMAN, [i \in 1..h |-> "a"], "plain_msg", NoRelation)

\* a call in the log of two handlers
By(h, c) == [handler |-> h, call |-> c]

\* the indicator after set_typing(timeout): on for a timeout that is not 0
TypingAfter(timeout) == timeout # TYPING_OFF

InitConcurrent ==
    /\ user_id = BOT
    /\ event = [h \in Handlers |-> TriggerOf(h)]
    /\ members = 2
    /\ pc = [h \in Handlers |-> "received"]
    /\ args = NoArgs
    /\ prompt = [h \in Handlers |-> <<>>]
    /\ message_history = [h \in Handlers |-> <<>>]
    /\ reply = [h \in Handlers |-> <<>>]
    /\ exc = [h \in Handlers |-> "none"]
    /\ calls = <<>>
    /\ server = [typing |-> FALSE]
    /\ result = "none"

\* handler h ends, with exception e or without ("none")
EndWith(h, e) ==
    /\ pc' = [pc EXCEPT ![h] = "done"]
    /\ exc' = [exc EXCEPT ![h] = e]

\* bot.py:159-173: get_joined_members answers, the message is accepted, its
\* prompt extracted and the history built (no thread: no further await)
ShouldRespondOf(h) ==
    /\ pc[h] = "received"
    /\ \E ok \in BOOLEAN :
        /\ calls' = Append(calls, By(h, Call("get_joined_members", ok)))
        /\ LET p == IF _is_mentioned(event[h].body, user_id)
                    THEN _extract_prompt(event[h].body)
                    ELSE Ok(event[h].body)
               hist == _build_thread_history(event[h], user_id, NoServer,
                                             HistoryLimit)
           IN  IF ~ok
               THEN EndWith(h, "ClientError")
                    /\ UNCHANGED <<prompt, message_history>>
               ELSE IF ~_should_respond(event[h].sender, user_id, members,
                                        event[h].body)
               THEN EndWith(h, "none") /\ UNCHANGED <<prompt, message_history>>
               ELSE /\ prompt' = [prompt EXCEPT ![h] = p.val]
                    /\ message_history' = [message_history EXCEPT ![h] = hist.val]
                    /\ pc' = [pc EXCEPT ![h] = "typing_on"]
                    /\ UNCHANGED exc
    /\ UNCHANGED <<args, user_id, event, members, reply, server, result>>

\* bot.py:174-175: set_typing(timeout=30_000) answers
TypingOnOf(h) ==
    /\ pc[h] = "typing_on"
    /\ \E ok \in BOOLEAN :
        /\ calls' = Append(calls, By(h, TypingCall(TYPING_ON, ok)))
        /\ IF ok
           THEN /\ server' = [server EXCEPT !.typing = TypingAfter(TYPING_ON)]
                /\ reply' = [reply EXCEPT ![h] = APOLOGY]
                /\ pc' = [pc EXCEPT ![h] = "agent_run"]
                /\ UNCHANGED exc
           ELSE EndWith(h, "ClientError") /\ UNCHANGED <<server, reply>>
    /\ UNCHANGED <<args, user_id, event, members, prompt, message_history,
                   result>>

\* bot.py:177: agent.run is awaited; the request is in flight
AgentStartOf(h) ==
    /\ pc[h] = "agent_run"
    /\ pc' = [pc EXCEPT ![h] = "in_flight"]
    /\ UNCHANGED <<args, user_id, event, members, prompt, message_history,
                   reply, exc, calls, server, result>>

\* bot.py:177-183: agent.run returns or raises
AgentEndOf(h) ==
    /\ pc[h] = "in_flight"
    /\ \E r \in AgentOutcomes :
        /\ calls' = Append(calls, By(h, AgentCall(prompt[h], message_history[h],
                                                  r.exc = "none")))
        /\ reply' = [reply EXCEPT ![h] = IF r.exc = "none" THEN r.val \o prompt[h]
                                         ELSE @]
    /\ pc' = [pc EXCEPT ![h] = "typing_off"]
    /\ UNCHANGED <<args, user_id, event, members, prompt, message_history,
                   exc, server, result>>

\* bot.py:183-184: set_typing(timeout=0) answers
TypingOffOf(h) ==
    /\ pc[h] = "typing_off"
    /\ \E ok \in BOOLEAN :
        /\ calls' = Append(calls, By(h, TypingCall(TYPING_OFF, ok)))
        /\ IF ok
           THEN /\ server' = [server EXCEPT !.typing = TypingAfter(TYPING_OFF)]
                /\ pc' = [pc EXCEPT ![h] = "reply"]
                /\ UNCHANGED exc
           ELSE EndWith(h, "ClientError") /\ UNCHANGED server
    /\ UNCHANGED <<args, user_id, event, members, prompt, message_history,
                   reply, result>>

\* bot.py:185: the reply of handler h is sent
SendReplyOf(h) ==
    /\ pc[h] = "reply"
    /\ \E ok \in BOOLEAN :
        /\ calls' = Append(calls, By(h, SendCall(event[h], reply[h], ok)))
        /\ EndWith(h, IF ok THEN "none" ELSE "ClientError")
    /\ UNCHANGED <<args, user_id, event, members, prompt, message_history,
                   reply, server, result>>

NextConcurrent ==
    \E h \in Handlers :
        \/ ShouldRespondOf(h)
        \/ TypingOnOf(h)
        \/ AgentStartOf(h)
        \/ AgentEndOf(h)
        \/ TypingOffOf(h)
        \/ SendReplyOf(h)

SpecConcurrent == InitConcurrent /\ [][NextConcurrent]_vars

(***************************************************************************)
(* Properties.                                                             *)
(***************************************************************************)
\* the tokens a body starts with, compared case-insensitively
TokensStarting(body, uid) ==
    {tok \in MentionTokens(uid) : StartsWith(Lower(body), Lower(tok))}

\* s.lstrip()
LStrip(s) == From(s, SkipSpace(s, 1))

\* C6: a message sent by the bot itself is never responded to, whatever the
\* room size and the body.
C6_SelfNeverAnswered ==
    (pc = "classified" /\ event.sender = user_id)
        => result.should_respond = FALSE

C6_Witness ==
    /\ pc = "classified"
    /\ event.sender = user_id
    /\ members = 2
    /\ StartsWith(event.body, TOKEN_NESTOR)
    /\ result.should_respond = FALSE

\* C7: in a room whose member count is not two, a message of another sender
\* is responded to exactly when its body starts, compared
\* case-insensitively, with "!nestor", "!n" or the bot identifier.
C7_GroupNeedsMention ==
    (pc = "classified" /\ members # 2 /\ event.sender # user_id)
        => (result.should_respond = (TokensStarting(event.body, user_id) # {}))

\* C8: in a room of exactly two members every message of another sender is
\* responded to, mention token or not.
C8_DirectAlwaysAnswered ==
    (pc = "classified" /\ members = 2 /\ event.sender # user_id)
        => result.should_respond = TRUE

C8_Witness ==
    /\ pc = "classified"
    /\ members = 2
    /\ event.sender # user_id
    /\ TokensStarting(event.body, user_id) = {}
    /\ result.should_respond = TRUE

\* C9: for a body that starts with a mention token, _extract_prompt returns
\* the text after the token with its leading whitespace removed (the empty
\* string when nothing or only whitespace follows).
C9_PromptIsRemainder ==
    (pc = "classified" /\ TokensStarting(event.body, user_id) # {})
        => \E tok \in TokensStarting(event.body, user_id) :
               result.extract_prompt =
                   Ok(LStrip(From(event.body, Len(tok) + 1)))

\* C10: _is_mentioned and _extract_prompt return a value for every body and
\* never raise.
C10_ClassifierTotal ==
    pc = "classified"
        => /\ result.is_mentioned \in BOOLEAN
           /\ result.extract_prompt.exc = "none"

(***************************************************************************)
(* Properties of _handle_message (Spec) and of _build_thread_history       *)
(* (SpecHistory).                                                          *)
(***************************************************************************)
IsTyping(c, timeout) == c.op = "set_typing" /\ c.timeout = timeout

IsSend(c) == c.op = "send_message_event"

\* set_typing(timeout=30_000) was called and succeeded
TypingSignalled == \E i \in 1..Len(calls) : IsTyping(calls[i], TYPING_ON) /\ calls[i].ok

\* number of set_typing(timeout=0) calls made
TypingOffCalls ==
    Cardinality({i \in 1..Len(calls) : IsTyping(calls[i], TYPING_OFF)})

ReplySent == \E i \in 1..Len(calls) : IsSend(calls[i]) /\ calls[i].ok

AgentFailed == \E i \in 1..Len(calls) : calls[i].op = "agent_run" /\ ~calls[i].ok

RelationsFailed ==
    \E i \in 1..Len(calls) : calls[i].op = "get_event_relations" /\ ~calls[i].ok

\* C1: once the typing indicator was set on, the handler does not end
\* without a reply sent to the room, whether agent.run and the
\* set_typing(timeout=0) call succeed or fail (the send itself succeeding).
C1_ReplyAfterTyping ==
    (/\ pc = "done"
     /\ TypingSignalled
     /\ ~\E i \in 1..Len(calls) : IsSend(calls[i]) /\ ~calls[i].ok)
        => ReplySent

\* C2: an exception raised by agent.run does not leave the handler (only a
\* later client call that fails can), and every message sent after the
\* agent call has the apology as body when agent.run raised and the agent's
\* output when it returned.
C2_AgentFailureGivesApology ==
    \A i \in 1..Len(calls) :
        calls[i].op = "agent_run" =>
            /\ ~calls[i].ok =>
                   \/ exc = "none"
                   \/ /\ exc = "ClientError"
                      /\ Len(calls) > i
                      /\ ~calls[Len(calls)].ok
            /\ \A j \in (i + 1)..Len(calls) :
                   IsSend(calls[j]) =>
                       calls[j].content.body =
                           IF calls[i].ok THEN AGENT_OUTPUT ELSE APOLOGY

C2_Witness ==
    /\ pc = "done"
    /\ exc = "none"
    /\ AgentFailed
    /\ \E j \in 1..Len(calls) :
           IsSend(calls[j]) /\ calls[j].ok /\ calls[j].content.body = APOLOGY

\* C3: a run that set the typing indicator on calls set_typing(timeout=0)
\* exactly once, whether agent.run returned or raised; a run that did not
\* set it on never calls set_typing(timeout=0), and a run that ends without
\* a prompt (ignored message, empty prompt) calls set_typing not at all.
C3_TypingClearedOnce ==
    /\ TypingOffCalls <= 1
    /\ pc = "done" =>
           /\ TypingOffCalls = IF TypingSignalled THEN 1 ELSE 0
           /\ prompt = <<>> => ~\E i \in 1..Len(calls) : calls[i].op = "set_typing"

C3_Witness ==
    /\ pc = "done"
    /\ TypingSignalled
    /\ AgentFailed
    /\ TypingOffCalls = 1

\* C4: when get_event_relations fails with a protocol response error, the
\* error does not leave _handle_message, and the handler goes on to call
\* the agent and to send a reply.
C4_FetchErrorNotFatal ==
    RelationsFailed =>
        /\ exc # "MatrixResponseError"
        /\ (pc = "done" /\ exc = "none") =>
               /\ \E i \in 1..Len(calls) : calls[i].op = "agent_run"
               /\ ReplySent

\* the events of the thread that the history is built from, oldest first:
\* the root when it was fetched and decrypts to a message, then the fetched
\* replies that decrypt to a message, the triggering event left out
ChronologicalEvents ==
    LET batch == Take(Reverse(server.timeline), HistoryLimit)
    IN  FetchRoot(server).val \o
        SelectSeq(DecryptAll(Reverse(batch)).val,
                  LAMBDA e : e.event_id # event.event_id)

\* C5: the turns returned by _build_thread_history are in chronological
\* order, oldest first: the root's turn, then the replies' turns from the
\* oldest to the newest.
C5_HistoryOldestFirst ==
    (/\ pc = "built"
     /\ get_thread_parent(event) # 0
     /\ result.exc = "none")
        => result.val = [i \in 1..Len(ChronologicalEvents) |->
                             TurnOf(ChronologicalEvents[i], user_id).val]

\* the message was accepted and its prompt, after extraction, is empty
AcceptedEmptyPrompt ==
    /\ Len(calls) >= 1
    /\ calls[1].op = "get_joined_members"
    /\ calls[1].ok
    /\ _should_respond(event.sender, user_id, members, event.body)
    /\ Ok(<<>>) = IF _is_mentioned(event.body, user_id)
                  THEN _extract_prompt(event.body)
                  ELSE Ok(event.body)

\* C11: an accepted message whose prompt is empty gets the fixed help text
\* and nothing else: one send with that body, no agent call, no history
\* fetch, no set_typing call.
C11_EmptyPromptGetsHelp ==
    AcceptedEmptyPrompt =>
        /\ \A i \in 2..Len(calls) :
               IsSend(calls[i]) /\ calls[i].content.body = HELP
        /\ Len(calls) <= 2
        /\ pc = "done" => Len(calls) = 2
        /\ message_history = <<>>

C11_Witness ==
    /\ pc = "done"
    /\ exc = "none"
    /\ event.body = TOKEN_N
    /\ members # 2
    /\ Len(calls) = 2
    /\ IsSend(calls[2]) /\ calls[2].ok /\ calls[2].content.body = HELP

\* C12: every reply carries a THREAD relation to the trigger's thread root
\* when the trigger is in a thread and to the trigger itself otherwise (no
\* relation, or a relation of another kind), and is in reply to the trigger.
C12_ReplyThreadTarget ==
    \A i \in 1..Len(calls) :
        (IsSend(calls[i]) /\ calls[i].ok) =>
            /\ calls[i].content.rel_type = "m.thread"
            /\ calls[i].content.in_reply_to = event.event_id
            /\ calls[i].content.thread =
                   IF event.relates_to.rel_type = "m.thread"
                   THEN event.relates_to.event_id
                   ELSE event.event_id

(***************************************************************************)
(* Properties of the thread history (SpecHistory), stated on the answers   *)
(* of the homeserver.                                                      *)
(***************************************************************************)
\* the event is a thread reply
InThread == event.relates_to.rel_type = "m.thread"

\* the batch of thread replies the homeserver hands out, in the order of
\* the response (newest first)
FetchedBatch == Take(Reverse(server.timeline), HistoryLimit)

\* the event is a message, in clear or after a decryption that succeeds
DecryptsToMessage(e) == e.form \in {"plain_msg", "enc_msg"}

\* the decryption of the event fails
DecryptionFails(e) == e.form \in {"enc_nosession", "enc_error"}

AsMessage(e) == [e EXCEPT !.form = "plain_msg"]

\* the fetched replies that are messages, the triggering event left out,
\* in the order of the response
SurvivingReplies ==
    LET kept == SelectSeq(FetchedBatch,
                          LAMBDA e : /\ DecryptsToMessage(e)
                                     /\ e.event_id # event.event_id)
    IN  [i \in 1..Len(kept) |-> AsMessage(kept[i])]

\* the root as the first event of the history, when it is there
SurvivingRoot ==
    IF server.root.found /\ DecryptsToMessage(server.root.ev)
    THEN <<AsMessage(server.root.ev)>>
    ELSE <<>>

\* get_event failed or the root's decryption failed
RootFailed == ~server.root.found \/ DecryptionFails(server.root.ev)

\* the errors a failed root fetch or decryption raises
RootErrors == {"MNotFound", "SessionNotFound", "DecryptionError"}

MadeCall(op) == \E i \in 1..Len(result.calls) : result.calls[i].op = op

\* C13: when get_event for the thread root fails, or the root's decryption
\* fails, _build_thread_history does not raise that error and goes on to
\* fetch the replies; with the replies fetched, what it gives is the turns
\* of the replies that decrypt to a message, the triggering event left
\* out, and no turn for the root.
C13_RootFailureNotFatal ==
    (pc = "built" /\ InThread /\ RootFailed)
        => /\ result.exc \notin RootErrors
           /\ MadeCall("get_event_relations")
           /\ server.relations = "ok" =>
                  [exc |-> result.exc, val |-> result.val] =
                      _thread_events_to_history(SurvivingReplies, user_id)

C13_Witness ==
    /\ pc = "built"
    /\ InThread
    /\ server.root.found
    /\ server.root.ev.form = "enc_error"
    /\ server.relations = "ok"
    /\ Len(server.timeline) = MaxReplies
    /\ \E i \in 1..Len(server.timeline) :
           server.timeline[i].event_id = event.event_id
    /\ result.exc = "none"
    /\ Len(result.val) = MaxReplies - 1

\* C14: a fetched thread event whose decryption fails (missing session or
\* another decryption error) gives no turn, its error does not leave
\* _build_thread_history, and the other events lose nothing: the turns are
\* those of the root and of every fetched event that decrypts to a message
\* (the triggering event apart), in the order they were fetched.
C14_UndecryptableSkipped ==
    (/\ pc = "built"
     /\ InThread
     /\ \E i \in 1..Len(FetchedBatch) : DecryptionFails(FetchedBatch[i]))
        => /\ result.exc \notin {"SessionNotFound", "DecryptionError"}
           /\ server.relations = "ok" =>
                  [exc |-> result.exc, val |-> result.val] =
                      _thread_events_to_history(
                          SurvivingRoot \o SurvivingReplies, user_id)

C14_Witness ==
    /\ pc = "built"
    /\ InThread
    /\ server.relations = "ok"
    /\ Len(FetchedBatch) = 2
    /\ FetchedBatch[1].form = "enc_nosession"
    /\ FetchedBatch[2].form = "enc_msg"
    /\ FetchedBatch[2].event_id # event.event_id
    /\ SurvivingRoot # <<>>
    /\ result.exc = "none"
    /\ Len(result.val) = 2

\* the number of fetched replies that decrypt to a message and are not the
\* triggering event
OtherReplies ==
    Cardinality({i \in 1..Len(FetchedBatch) :
                    /\ DecryptsToMessage(FetchedBatch[i])
                    /\ FetchedBatch[i].event_id # event.event_id})

\* C15: the turns returned by _build_thread_history hold none for the event
\* that has the triggering event's id, also when the fetched batch holds
\* it: there are as many turns as the root and the other fetched messages.
C15_TriggerLeftOut ==
    (pc = "built" /\ InThread /\ result.exc = "none")
        => Len(result.val) = Len(SurvivingRoot) + OtherReplies

C15_Witness ==
    /\ pc = "built"
    /\ InThread
    /\ result.exc = "none"
    /\ Len(FetchedBatch) = 2
    /\ \A i \in 1..2 : DecryptsToMessage(FetchedBatch[i])
    /\ FetchedBatch[1].event_id = event.event_id
    /\ SurvivingRoot # <<>>
    /\ Len(result.val) = 2

\* C16: for an event without a reference to a thread root (no relation, or
\* a relation that is not THREAD), _build_thread_history returns the empty
\* sequence and makes no call: no get_event, no get_event_relations, no
\* decryption.
C16_NoThreadNoFetch ==
    (pc = "built" /\ ~InThread) => result = OkCalls(<<>>, <<>>)

C16_Witness ==
    /\ pc = "built"
    /\ event.relates_to.rel_type = "m.replace"
    /\ server.root.found
    /\ server.timeline # <<>>
    /\ result.exc = "none"
    /\ result.val = <<>>
    /\ result.calls = <<>>

\* the texts a body gives once a leading mention token is removed (the
\* white space after the token removed too, or kept): the body itself when
\* it starts with no token
WithoutMention(body, uid) ==
    IF TokensStarting(body, uid) = {} THEN {body}
    ELSE UNION {{From(body, Len(tok) + 1), LStrip(From(body, Len(tok) + 1))} :
                   tok \in TokensStarting(body, uid)}

\* C17: _thread_events_to_history returns one turn per event, in the order
\* of the events: an assistant turn with the body unchanged for an event
\* sent by the bot, and for any other event a user turn whose text is the
\* body without its leading mention token.
C17_OneTurnPerEvent ==
    pc = "converted"
        => /\ result.exc = "none"
           /\ Len(result.val) = Len(args.events)
           /\ \A i \in 1..Len(args.events) :
                  LET e == args.events[i]
                  IN  IF e.sender = user_id
                      THEN result.val[i] =
                               [role |-> "assistant", content |-> e.body]
                      ELSE /\ result.val[i].role = "user"
                           /\ result.val[i].content \in
                                  WithoutMention(e.body, user_id)

(***************************************************************************)
(* Properties of get_event_relations (SpecRelations).                      *)
(***************************************************************************)
\* the response holds an event that is malformed
SomeMalformed ==
    /\ server.content.has_chunk
    /\ \E i \in 1..Len(server.content.chunk) : ~server.content.chunk[i].valid

\* C18: get_event_relations ends with MatrixResponseError when the response
\* has no "chunk", and when one event of the chunk is malformed, in which
\* case no event is returned; with a chunk that is there and empty it
\* returns an empty sequence of events.
C18_MalformedResponseFails ==
    (pc = "fetched" /\ server.answers)
        => /\ ~server.content.has_chunk
                  => result.exc = "MatrixResponseError"
           /\ SomeMalformed
                  => result.exc = "MatrixResponseError" /\ result.val = <<>>
           /\ (server.content.has_chunk /\ server.content.chunk = <<>>)
                  => result.exc = "none" /\ result.val = <<>>

C18_Witness ==
    /\ pc = "fetched"
    /\ server.answers
    /\ server.content.has_chunk
    /\ Len(server.content.chunk) = 2
    /\ server.content.chunk[1].valid
    /\ ~server.content.chunk[2].valid
    /\ result.exc = "MatrixResponseError"
    /\ result.val = <<>>

\* the integer a decimal numeral stands for
RECURSIVE NatOf(_)
NatOf(ds) ==
    IF ds = <<>> THEN 0
    ELSE 10 * NatOf(SubSeq(ds, 1, Len(ds) - 1))
         + (CHOOSE d \in 0..9 : DigitChars[d + 1] = ds[Len(ds)])

IntOf(ds) == IF Head(ds) = "-" THEN 0 - NatOf(Tail(ds)) ELSE NatOf(ds)

\* C19: get_event_relations makes exactly one request; when a limit was
\* given, whatever integer it is, the request has a limit parameter that
\* reads as this integer, and the request has no limit parameter only when
\* no limit was given.
C19_LimitPassedVerbatim ==
    pc = "fetched"
        => /\ Len(calls) = 1
           /\ calls[1].op = "api_request"
           /\ calls[1].query_params.limit.present = args.limit.given
           /\ args.limit.given
                  => /\ calls[1].query_params.limit.value # <<>>
                     /\ IntOf(calls[1].query_params.limit.value)
                            = args.limit.value

(***************************************************************************)
(* Properties of resolve_homeserver (SpecAuth).                            *)
(***************************************************************************)
\* the scheme the input asks for: its own http or https, https by default
GivenScheme ==
    IF StartsWith(args.domain, HTTP \o SCHEME_SEP) THEN HTTP ELSE HTTPS

\* s without the "/" it ends with
WithoutTrailingSlashes(s) ==
    LET n == CHOOSE k \in 0..Len(s) :
                 /\ k = 0 \/ s[k] # SLASH
                 /\ \A j \in (k + 1)..Len(s) : s[j] = SLASH
    IN  SubSeq(s, 1, n)

\* "<scheme>://<domain>" for the host of the input
FallbackUrl == GivenScheme \o SCHEME_SEP \o HOST

\* the document of the answer is a JSON object
BodyIsObject == server.body.kind = "object"

\* the document has an m.homeserver object with a base_url that is not empty
HasBaseUrl ==
    /\ BodyIsObject
    /\ server.body.homeserver.kind = "object"
    /\ server.body.homeserver.has_base_url
    /\ server.body.homeserver.base_url # <<>>

ReturnedUrl == [exc |-> result.exc, val |-> result.val]

\* C20 as it is stated: base_url without trailing slashes on a 200 answer
\* with a base_url; "<scheme>://<domain>" on an answer with another status
\* or without base_url; ValueError when the connection fails or the body
\* of the answer is not a JSON object.
C20_ResolveAsStated ==
    pc = "resolved"
        => /\ (server.connected /\ server.status = HTTP_OK /\ HasBaseUrl)
                  => ReturnedUrl =
                         Ok(WithoutTrailingSlashes(server.body.homeserver.base_url))
           /\ (server.connected /\ BodyIsObject
                  /\ (server.status # HTTP_OK \/ ~HasBaseUrl))
                  => ReturnedUrl = Ok(FallbackUrl)
           /\ (~server.connected \/ ~BodyIsObject)
                  => ReturnedUrl = Raise("ValueError")

\* the lookup fails: no connection, or a 200 answer whose body is not a
\* JSON object or whose m.homeserver entry is not an object
LookupFails ==
    \/ ~server.connected
    \/ /\ server.status = HTTP_OK
       /\ \/ ~BodyIsObject
          \/ server.body.homeserver.kind = "not_object"

\* C20: resolve_homeserver raises ValueError when the lookup fails; else it
\* returns base_url without its trailing slashes when a 200 answer holds an
\* m.homeserver object with a base_url that is not empty; else it returns
\* "<scheme>://<domain>", with the http or https scheme of the input and
\* https by default, whatever the body of an answer with another status.
C20_ResolveHomeserver ==
    pc = "resolved"
        => ReturnedUrl =
               IF LookupFails THEN Raise("ValueError")
               ELSE IF server.status = HTTP_OK /\ HasBaseUrl
               THEN Ok(WithoutTrailingSlashes(server.body.homeserver.base_url))
               ELSE Ok(FallbackUrl)

C20_Witness ==
    /\ pc = "resolved"
    /\ StartsWith(args.domain, HTTP \o SCHEME_SEP)
    /\ server.connected
    /\ server.status = HTTP_OK
    /\ HasBaseUrl
    /\ server.body.homeserver.base_url[Len(server.body.homeserver.base_url)] = SLASH
    /\ Len(server.body.homeserver.base_url) > MaxSlashes
    /\ result.exc = "none"
    /\ result.val = HTTPS \o SCHEME_SEP \o <<"c", ".", "o">>

(***************************************************************************)
(* Properties of get_access_token (SpecLogin).                             *)
(***************************************************************************)
\* what resolve_homeserver gives for the homeserver argument
Resolved == resolve_homeserver(args.homeserver, server.lookup)

\* the host of a URL, with its port when it has one: what follows "://" up
\* to the first "/"
HostOf(url) ==
    LET n == Len(url)
        seps == {i \in 1..n : i + 2 <= n /\ SubSeq(url, i, i + 2) = SCHEME_SEP}
    IN  IF seps = {} THEN <<>>
        ELSE LET a == (CHOOSE i \in seps : \A j \in seps : i <= j) + 3
                 stops == {i \in a..n : url[i] = SLASH}
                 b == IF stops = {} THEN n
                      ELSE (CHOOSE i \in stops : \A j \in stops : i <= j) - 1
             IN  SubSeq(url, a, b)

\* the positions of the login requests in the calls of the result
LoginRequests == {i \in 1..Len(result.calls) : result.calls[i].op = "http_post"}

\* C21: every login request of get_access_token comes after the well-known
\* lookup of the homeserver and goes to the login endpoint of the resolved
\* homeserver; the user it names is the username itself when it starts
\* with "@", and "@<username>:<host of the resolved homeserver>" when not.
C21_LoginAfterResolution ==
    pc = "logged_in"
        => \A i \in LoginRequests :
               /\ i = 2
               /\ result.calls[1].op = "http_get"
               /\ Resolved.exc = "none"
               /\ result.calls[i].url = Resolved.val \o LOGIN_PATH
               /\ result.calls[i].json.identifier.user =
                      IF args.username[1] = AT THEN args.username
                      ELSE <<AT>> \o args.username \o <<":">>
                               \o HostOf(Resolved.val)

C21_Witness ==
    /\ pc = "logged_in"
    /\ args.username = <<"a">>
    /\ args.homeserver = HOST
    /\ Resolved.val = HTTPS \o SCHEME_SEP \o <<"c", ".", "o">>
    /\ result.exc = "none"
    /\ LoginRequests = {2}
    /\ result.calls[2].url = HTTPS \o SCHEME_SEP \o <<"c", ".", "o">> \o LOGIN_PATH
    /\ result.calls[2].json.identifier.user = <<AT, "a", ":", "c", ".", "o">>

\* C22: get_access_token returns a pair only for a login request that was
\* answered with a success status, and the pair is (access_token,
\* device_id) of that answer; a login answered with an error status ends
\* with HTTPStatusError, a login that meets a network error ends with that
\* error, and neither returns a pair.
C22_TokensOnlyOnSuccess ==
    pc = "logged_in"
        => /\ result.exc = "none"
                  => /\ LoginRequests # {}
                     /\ server.login.connected
                     /\ server.login.status = HTTP_OK
                     /\ result.val = <<server.login.body.access_token,
                                       server.login.body.device_id>>
           /\ (LoginRequests # {} /\ server.login.connected
                  /\ server.login.status # HTTP_OK)
                  => result.exc = "HTTPStatusError" /\ result.val = <<>>
           /\ (LoginRequests # {} /\ ~server.login.connected)
                  => result.exc = "ConnectError" /\ result.val = <<>>

C22_Witness ==
    /\ pc = "logged_in"
    /\ LoginRequests # {}
    /\ server.login.connected
    /\ server.login.status # HTTP_OK
    /\ server.login.body.has_tokens
    /\ result.exc = "HTTPStatusError"
    /\ result.val = <<>>

(***************************************************************************)
(* Order and frame of _handle_message (Spec).                              *)
(***************************************************************************)
\* the step of the handler a call belongs to: the classification, the
\* history build, typing on, the agent call, typing off, the send
StepOf(c) ==
    CASE c.op = "get_joined_members" -> 0
      [] c.op \in {"get_event", "decrypt", "get_event_relations"} -> 1
      [] c.op = "set_typing" /\ c.timeout = TYPING_ON -> 2
      [] c.op = "agent_run" -> 3
      [] c.op = "set_typing" /\ c.timeout = TYPING_OFF -> 4
      [] c.op = "send_message_event" -> 5

CallsOfStep(n) == {i \in 1..Len(calls) : StepOf(calls[i]) = n}

\* C23: the agent is called at most once for a message, also after a
\* failure, and the calls of the handler follow the order history build,
\* typing on, agent call, typing off, send: no call of an earlier step
\* comes after a call of a later one, and a message with a prompt whose
\* handler ends without exception went through typing on, the agent call,
\* typing off and the send, once each.
C23_StepsInOrder ==
    /\ Cardinality(CallsOfStep(3)) <= 1
    /\ \A i, j \in 1..Len(calls) :
           i < j => /\ StepOf(calls[i]) <= StepOf(calls[j])
                    /\ StepOf(calls[j]) >= 2 => StepOf(calls[i]) < StepOf(calls[j])
    /\ (pc = "done" /\ exc = "none" /\ prompt # <<>>)
           => \A n \in 2..5 : Cardinality(CallsOfStep(n)) = 1

C23_Witness ==
    /\ pc = "done"
    /\ exc = "none"
    /\ prompt # <<>>
    /\ Len(calls) = 8
    /\ calls[2].op = "get_event"
    /\ calls[3].op = "decrypt"
    /\ calls[4].op = "get_event_relations"
    /\ IsTyping(calls[5], TYPING_ON)
    /\ calls[6].op = "agent_run" /\ ~calls[6].ok
    /\ IsTyping(calls[7], TYPING_OFF)
    /\ IsSend(calls[8]) /\ calls[8].ok

\* the message is one the bot does not answer: its own, or one without a
\* leading mention token in a room that has not exactly two members
NotToAnswer ==
    \/ event.sender = user_id
    \/ members # 2 /\ TokensStarting(event.body, user_id) = {}

\* C24: for a message that _should_respond rejects, _handle_message sends
\* nothing, leaves the typing indicator alone, does not call the agent
\* and fetches no thread event: the member count is the only thing it asks.
C24_IgnoredMessageNoEffect ==
    NotToAnswer
        => /\ \A i \in 1..Len(calls) : calls[i].op = "get_joined_members"
           /\ Len(calls) <= 1
           /\ prompt = <<>> /\ message_history = <<>> /\ reply = <<>>

C24_Witness ==
    /\ pc = "done"
    /\ exc = "none"
    /\ event.sender = HUMAN
    /\ event.body = <<"a">>
    /\ event.relates_to.rel_type = "m.thread"
    /\ members = MaxMembers
    /\ calls = <<Call("get_joined_members", TRUE)>>

(***************************************************************************)
(* Two concurrent handlers (SpecConcurrent).                               *)
(***************************************************************************)
\* the agent call of handler h is in flight
InFlight(h) == pc[h] = "in_flight"

\* the positions of the messages handler h sent
SendsOf(h) ==
    {i \in 1..Len(calls) : calls[i].handler = h /\ IsSend(calls[i].call)}

\* C25: with two handlers of two accepted messages interleaved at their
\* awaits, the typing indicator of the room is on whenever an agent call
\* of one of them is in flight, and each handler sends one reply, its own,
\* threaded to its own triggering message.
C25_TypingWhileAgentRuns ==
    /\ (\E h \in Handlers : InFlight(h)) => server.typing
    /\ \A h \in Handlers :
           /\ Cardinality(SendsOf(h)) <= 1
           /\ (pc[h] = "done" /\ exc[h] = "none") => Cardinality(SendsOf(h)) = 1
           /\ \A i \in SendsOf(h) :
                  /\ calls[i].call.content.body = reply[h]
                  /\ calls[i].call.content.thread = event[h].event_id
                  /\ calls[i].call.content.in_reply_to = event[h].event_id

====
